---- MODULE Spec2Model ----
(***************************************************************************)
(* Model of src/cry2_trpc1_simulation.tsx: the React component             *)
(* CRY2TRPC1Simulation, its parameter inputs, and runSimulation (the       *)
(* Euler-Maruyama loop, the switch detector, the downsampling, the         *)
(* statistics, the histogram, the spectrum's frequency axis and the        *)
(* result published with setResults).                                      *)
(*                                                                         *)
(* Numbers.  The program computes in IEEE doubles; the model computes in   *)
(* fixed point on integers, with one reserved value, NaN, that propagates  *)
(* through arithmetic and fails every comparison, as in JavaScript.        *)
(*   length    one unit is x_0/10, so x_0 = 10 and 0.1*x_0 = 1             *)
(*   time      one unit is dt/2, so dt = 2 and floor(t_end/dt) truncates   *)
(*   energy    one unit is k_B times one unit of T                         *)
(*   friction  gamma = 4, which makes sqrt(2*k_B*T*dt/gamma) = 1 at T = 1  *)
(*   x/x_0     (trajectory samples, mean, std) in hundredths               *)
(* Every quotient is rounded to the nearest unit.  The spectrum's power    *)
(* values (sums of cosines and sines) and the SNR derived from them are    *)
(* real-valued and are not computed: a spectrum entry carries its          *)
(* frequency index and frequency only.                                     *)
(***************************************************************************)
EXTENDS Integers, Sequences, FiniteSets

VARIABLES
  params,       \* useState: {T, B_field, F_mag, dt, t_end}
  isRunning,    \* useState
  progress,     \* useState
  results,      \* useState: <<>> for null, <<r>> once a result is published
  phase,        \* "idle" | "scheduled" (setTimeout pending) | "loop"
  run,          \* the params the timeout callback's closure reads
  n_steps, downsample, x, trajectory, times, switchCount, lastSign, i, R,
  histogram,    \* locals of the callback
  runs,         \* number of runs started
  log,          \* per step of the current run: noise drawn and state reached
  ref           \* <<>>, or <<the first finished run>>: its params, log, result

vars == <<params, isRunning, progress, results, phase, run, n_steps, downsample,
          x, trajectory, times, switchCount, lastSign, i, R, histogram,
          runs, log, ref>>

\* ---------------------------------------------------------------- bounds
TEndMax == 7          \* Spec: largest t_end typed, up to 3 steps
TEndTwice == 5        \* SpecTwice: largest t_end typed, up to 2 steps
XMax == 22            \* |x| stays within 2.2 * x_0

TValues == {-1, 0, 1}
FValues == {0, 40}
NoiseSet == {-11, -10, -2, 2, 10, 11}

\* ------------------------------------------------------- program constants
k_B == 1
x_0 == 10
gamma == 4
Phi_baseline == 25          \* 0.25, in hundredths
Phi_amplitude == 5          \* 0.05, in hundredths
SampleTarget == 5000
ChartCap == 2000
FftCap == 1024
SpectrumCap == 100
hist_bins == 50
x_min == -200               \* -2, in hundredths
x_max == 200
RatioScale == 10 * x_0      \* x/x_0 is kept in hundredths: 100 to one x_0

\* ------------------------------------------------------------- arithmetic
NaN == -(10^9)
IsNaN(v) == v = NaN

Min(a, b) == IF a < b THEN a ELSE b
Max(a, b) == IF a > b THEN a ELSE b

\* a / b for b > 0, to the nearest integer (halves away from zero)
RDiv(a, b) == IF a >= 0 THEN (2 * a + b) \div (2 * b)
                        ELSE -((2 * (-a) + b) \div (2 * b))

\* JavaScript's + - * / on doubles: NaN in, NaN out; 0/0 is NaN.
\* (A nonzero numerator over 0 does not arise: every division by a length or
\* a time that is 0 has a numerator that is 0 as well.)
FAdd(a, b) == IF IsNaN(a) \/ IsNaN(b) THEN NaN ELSE a + b
FMul(a, b) == IF IsNaN(a) \/ IsNaN(b) THEN NaN ELSE a * b
FDiv(a, b) == IF IsNaN(a) \/ IsNaN(b) \/ b = 0 THEN NaN
              ELSE IF b < 0 THEN RDiv(-a, -b) ELSE RDiv(a, b)

RECURSIVE SqrtBetween(_, _, _)
SqrtBetween(v, lo, hi) ==
  IF lo >= hi THEN lo
  ELSE LET mid == (lo + hi + 1) \div 2
       IN  IF mid * mid <= v THEN SqrtBetween(v, mid, hi)
                             ELSE SqrtBetween(v, lo, mid - 1)

\* Math.sqrt: NaN below zero
MathSqrt(v) == IF IsNaN(v) \/ v < 0 THEN NaN ELSE SqrtBetween(v, 0, v)

\* Math.sign, Math.abs, Math.floor(a / b)
MathSign(v) == IF IsNaN(v) THEN NaN
               ELSE IF v > 0 THEN 1 ELSE IF v < 0 THEN -1 ELSE 0
MathAbs(v) == IF IsNaN(v) THEN NaN ELSE IF v < 0 THEN -v ELSE v
FloorDiv(a, b) == IF IsNaN(a) \/ IsNaN(b) \/ b = 0 THEN NaN ELSE a \div b

\* a > b on doubles: false when either is NaN
Gt(a, b) == ~IsNaN(a) /\ ~IsNaN(b) /\ a > b

\* a % b === 0: i % 0 is NaN, which is not 0
ModIsZero(a, b) == b > 0 /\ a % b = 0

\* Math.sin at a whole number of quarter periods
SinQuarter(q) == IF q % 4 = 1 THEN 1 ELSE IF q % 4 = 3 THEN -1 ELSE 0

\* sum of s[lo..hi], NaN if any term is NaN
RECURSIVE SumRange(_, _, _)
SumRange(s, lo, hi) ==
  IF lo > hi THEN 0
  ELSE IF lo = hi THEN s[lo]
  ELSE LET mid == (lo + hi) \div 2
       IN  FAdd(SumRange(s, lo, mid), SumRange(s, mid + 1, hi))

\* array.reduce((a, b) => a + f(b), 0)
Sum(s) == SumRange(s, 1, Len(s))

\* array.slice(0, n)
Slice(s, n) == SubSeq(s, 1, Min(n, Len(s)))

FSub(a, b) == IF IsNaN(a) \/ IsNaN(b) THEN NaN ELSE a - b

\* ---------------------------------------------------------------- physics
\* lines 26-29: k_B_T, delta_U, and a, b kept as a * x_0^2 and b * x_0^4
k_B_T(p) == FMul(k_B, p.T)
delta_U(p) == FMul(6, k_B_T(p))
a(p) == FMul(24, k_B_T(p))
b(p) == a(p)

\* line 44 with the sine taken a quarter period on
F_couplingQuarter(p) == FMul(p.F_mag, Phi_amplitude * SinQuarter(1))

\* lines 42-44, in hundredths of a force unit: the sine is taken at t = 0
Phi_S == Phi_baseline + Phi_amplitude * SinQuarter(4 * 100 * 0)
F_coupling(p) == FMul(p.F_mag, Phi_S - Phi_baseline)

\* line 52, times 100 * x_0^4: a*x - b*x^3 + F_coupling
F_det(xv, p) ==
  FAdd(FMul(100, FSub(FMul(a(p) * x_0 * x_0, xv),
                      FMul(b(p), FMul(xv, FMul(xv, xv))))),
       FMul(F_coupling(p), x_0 * x_0 * x_0 * x_0))

\* line 55: sqrt(2 * k_B_T * dt / gamma) * R
noise_term(p, Rv) == FMul(MathSqrt(FDiv(FMul(2 * p.dt, k_B_T(p)), gamma)), Rv)

\* line 56: x + (dt / gamma) * F_det + noise_term
NextX(xv, p, Rv) ==
  FAdd(FAdd(xv, FDiv(FMul(p.dt, F_det(xv, p)), gamma * 100 * x_0 * x_0 * x_0 * x_0)),
       noise_term(p, Rv))

\* line 60 without the threshold
SwitchWithoutThreshold(xv, ls) == MathSign(xv) # ls /\ ~IsNaN(xv)

\* line 60 with || for &&
SwitchEither(xv, ls) == MathSign(xv) # ls \/ Gt(MathAbs(xv), FDiv(x_0, 10))

\* line 60: currentSign !== lastSign && Math.abs(x) > 0.1 * x_0
SwitchDetected(xv, ls) == MathSign(xv) # ls /\ Gt(MathAbs(xv), FDiv(x_0, 10))

\* line 62 moved out of the if: lastSign follows every sign
LastSignAlways(sw, xv, ls) == MathSign(xv)

\* lines 61-62
NextSwitchCount(sw, sc) == IF sw THEN sc + 1 ELSE sc
NextLastSign(sw, xv, ls) == IF sw THEN MathSign(xv) ELSE ls

\* line 38 with the counter kept outside the callback
StaleSwitchCount == switchCount

\* line 38
InitialSwitchCount == 0

\* lines 32-33
NSteps(p) == FloorDiv(p.t_end, p.dt)
Downsample(n) == Max(1, FloorDiv(n, SampleTarget))

\* line 47: i < n_steps
LoopContinues(iv, n) == iv < n

\* line 66 keeping the last step of each stride instead of the first
RetainedLast(iv, d) == d > 0 /\ iv % d = d - 1

\* line 66: i % downsample === 0
Retained(iv, d) == ModIsZero(iv, d)

\* line 67: x / x_0
PositionRatio(xv) == FDiv(FMul(xv, RatioScale), x_0)

\* line 68: i * dt * 1e6, in thousandths of a time unit (1e6 would leave
\* TLC's 32-bit integers in a long run)
TimeMicros(iv, p) == iv * p.dt * 1000

\* ------------------------------------------------------------- statistics
\* line 78
Mean(t) == FDiv(Sum(t), Len(t))
\* lines 79-80
Variance(t) ==
  LET m == Mean(t)
  IN  FDiv(Sum([j \in 1..Len(t) |-> FMul(FSub(t[j], m), FSub(t[j], m))]), Len(t))
StdDev(t) == MathSqrt(Variance(t))

\* lines 88-89
bin_width == (x_max - x_min) \div hist_bins

\* line 92 clamping into the edge bins
BinClamped(val) ==
  IF IsNaN(val) THEN NaN
  ELSE Max(0, Min(hist_bins - 1, (val - x_min) \div bin_width))

\* line 92
Bin(val) == FloorDiv(FSub(val, x_min), bin_width)

\* line 93: bin >= 0 && bin < hist_bins
Binned(val) == ~IsNaN(Bin(val)) /\ Bin(val) >= 0 /\ Bin(val) < hist_bins

\* lines 87, 91-94: the array histogram, its bin 0 first
Histogram(t) ==
  [e \in 1..hist_bins |->
     Cardinality({j \in 1..Len(t) : Binned(t[j]) /\ Bin(t[j]) = e - 1})]

\* lines 96-99: density in thousandths
HistData(h, t) ==
  [e \in 1..hist_bins |->
     [x |-> x_min + (e - 1) * bin_width + bin_width \div 2,
      density |-> FDiv(h[e] * 1000 * RatioScale, Len(t) * bin_width)]]

\* lines 102-105
ChartData(ts, t) == [j \in 1..Len(ts) |-> [time |-> ts[j], position |-> t[j]]]

\* line 112
ChartOut(chart) == Slice(chart, ChartCap)

\* line 141 with k <= N / 2
SpectrumIndicesInclusive(N) == {k \in 0..N : 2 * k <= N}

\* line 141: the k with k < N / 2, a division of doubles
SpectrumIndices(N) == {k \in 0..N : 2 * k < N}

\* lines 137-156, without the power values
computeSimplePowerSpectrum(data) ==
  LET N == Len(data)
      spectrum == [j \in 1..Cardinality(SpectrumIndices(N)) |->
                     [k |-> j - 1, freq |-> (j - 1) * 10]]
  IN  Slice(spectrum, SpectrumCap)

\* lines 108-109
fft_size(t) == Min(FftCap, Len(t))
Spectrum(t) == computeSimplePowerSpectrum(Slice(t, fft_size(t)))

\* lines 115-122: mean and std in hundredths, rate and barrier with two decimals
Metrics(t, sc, p) ==
  [mean |-> Mean(t),
   std |-> StdDev(t),
   switches |-> sc,
   rate |-> FDiv(sc * 100, p.t_end),
   barrier |-> FDiv(FMul(100, delta_U(p)), k_B_T(p))]

\* lines 77-123 with the cap applied before the statistics
ResultOfCapped(ts, t, h, sc, p) ==
  [chartData |-> ChartOut(ChartData(ts, t)),
   histData |-> HistData(Histogram(Slice(t, ChartCap)), Slice(t, ChartCap)),
   spectrum |-> Spectrum(t),
   metrics |-> Metrics(Slice(t, ChartCap), sc, p)]

\* lines 111-123: the object handed to setResults
Result(ts, t, h, sc, p) ==
  [chartData |-> ChartOut(ChartData(ts, t)),
   histData |-> HistData(h, t),
   spectrum |-> Spectrum(t),
   metrics |-> Metrics(t, sc, p)]

\* ------------------------------------------------------------------ state
DefaultParams(te) == [T |-> 1, B_field |-> 50, F_mag |-> 40, dt |-> 2, t_end |-> te]

\* The state after construction (lines 6-15).  The default t_end is 10^8
\* steps; the behaviours start with a t_end already typed, within the bound.
InitWith(TEnds) ==
  /\ params \in {DefaultParams(te) : te \in TEnds}
  /\ isRunning = FALSE
  /\ progress = 0
  /\ results = <<>>
  /\ phase = "idle"
  /\ run = params
  /\ n_steps = 0
  /\ downsample = 1
  /\ x = -x_0
  /\ trajectory = <<>>
  /\ times = <<>>
  /\ switchCount = 0
  /\ lastSign = -1
  /\ i = 0
  /\ R = 0
  /\ histogram = [e \in 1..hist_bins |-> 0]
  /\ runs = 0
  /\ log = <<>>
  /\ ref = <<>>

Init == InitWith(0..TEndMax)

locals == <<n_steps, downsample, x, trajectory, times, switchCount, lastSign, i, R,
            histogram, log>>

\* lines 183-189, 192-200, 203-211: the inputs, disabled while running.  v is
\* the value already parsed and converted to the model's units.
SetT ==
  /\ ~isRunning
  /\ \E v \in TValues : params' = [params EXCEPT !.T = v]
  /\ UNCHANGED <<isRunning, progress, results, phase, run, runs, ref>>
  /\ UNCHANGED locals

SetF_mag ==
  /\ ~isRunning
  /\ \E v \in FValues : params' = [params EXCEPT !.F_mag = v]
  /\ UNCHANGED <<isRunning, progress, results, phase, run, runs, ref>>
  /\ UNCHANGED locals

SetT_end(TEnds) ==
  /\ ~isRunning
  /\ \E v \in TEnds : params' = [params EXCEPT !.t_end = v]
  /\ UNCHANGED <<isRunning, progress, results, phase, run, runs, ref>>
  /\ UNCHANGED locals

\* lines 21-25 (the button is disabled while running, line 222)
runSimulation ==
  /\ ~isRunning
  /\ phase = "idle"
  /\ isRunning' = TRUE
  /\ progress' = 0
  /\ phase' = "scheduled"
  /\ run' = params
  /\ runs' = runs + 1
  /\ UNCHANGED <<params, results, ref>>
  /\ UNCHANGED locals

\* lines 26-44: the timeout fires; the callback's locals are set up
Begin ==
  /\ phase = "scheduled"
  /\ phase' = "loop"
  /\ n_steps' = NSteps(run)
  /\ downsample' = Downsample(NSteps(run))
  /\ x' = -x_0
  /\ trajectory' = <<>>
  /\ times' = <<>>
  /\ switchCount' = InitialSwitchCount
  /\ lastSign' = MathSign(-x_0)
  /\ i' = 0
  /\ log' = <<>>
  /\ UNCHANGED <<params, isRunning, progress, results, run, R, histogram, runs, ref>>

\* The locals the loop changes (progress is the pending setProgress value).
Locals ==
  [x |-> x, switchCount |-> switchCount, lastSign |-> lastSign,
   trajectory |-> trajectory, times |-> times, i |-> i, R |-> R,
   progress |-> progress, log |-> log]

\* lines 48-74: the body of the loop on the locals st, with Rv the value of
\* randomGaussian()
LoopBody(st, Rv) ==
  LET xn == NextX(st.x, run, Rv)
      sw == SwitchDetected(xn, st.lastSign)
      sc == NextSwitchCount(sw, st.switchCount)
      ls == NextLastSign(sw, xn, st.lastSign)
      keep == Retained(st.i, downsample)
      traj == IF keep THEN Append(st.trajectory, PositionRatio(xn)) ELSE st.trajectory
  IN  [x |-> xn,
       switchCount |-> sc,
       lastSign |-> ls,
       trajectory |-> traj,
       times |-> IF keep THEN Append(st.times, TimeMicros(st.i, run)) ELSE st.times,
       i |-> st.i + 1,
       R |-> Rv,
       progress |-> IF ModIsZero(st.i, FloorDiv(n_steps, 20))
                    THEN FDiv(st.i * 100, n_steps) ELSE st.progress,
       log |-> Append(st.log, [R |-> Rv, x |-> xn, lastSign |-> ls,
                               switchCount |-> sc, kept |-> Len(traj)])]

Store(st) ==
  /\ x' = st.x
  /\ switchCount' = st.switchCount
  /\ lastSign' = st.lastSign
  /\ trajectory' = st.trajectory
  /\ times' = st.times
  /\ i' = st.i
  /\ R' = st.R
  /\ progress' = st.progress
  /\ log' = st.log
  /\ UNCHANGED <<params, isRunning, results, phase, run, n_steps, downsample,
                 histogram, runs, ref>>

\* lines 47-75: one iteration of the loop
Step(Rv) ==
  /\ phase = "loop"
  /\ LoopContinues(i, n_steps)
  /\ LET st == LoopBody(Locals, Rv)
     IN  /\ IsNaN(st.x) \/ MathAbs(st.x) <= XMax
         /\ Store(st)

\* lines 77-126: the loop is over; metrics, histogram, spectrum, setResults
Finish ==
  /\ phase = "loop"
  /\ ~LoopContinues(i, n_steps)
  /\ histogram' = Histogram(trajectory)
  /\ results' = <<Result(times, trajectory, histogram', switchCount, run)>>
  /\ progress' = 100
  /\ isRunning' = FALSE
  /\ phase' = "idle"
  /\ ref' = IF ref = <<>> THEN <<[p |-> run, log |-> log, res |-> results'[1]]>> ELSE ref
  /\ UNCHANGED <<params, run, n_steps, downsample, x, trajectory, times,
                 switchCount, lastSign, i, R, runs, log>>

\* The random source.  Integrate: any value of the noise set.
Integrate == \E Rv \in NoiseSet : Step(Rv)

\* One run of a freshly mounted component, on any typed parameters, up to
\* the publication of its result.
FirstRun == runs = 0 /\ runSimulation
TypeT == runs = 0 /\ SetT
TypeF_mag == runs = 0 /\ SetF_mag
TypeT_end == runs = 0 /\ SetT_end(0..TEndMax)

Next ==
  \/ TypeT
  \/ TypeF_mag
  \/ TypeT_end
  \/ FirstRun
  \/ Begin
  \/ Integrate
  \/ Finish

Spec == Init /\ [][Next]_vars

\* Two runs.  The random source is stubbed: the second run is fed the first
\* run's sequence again, and free draws once that is used up.  The
\* temperature keeps its default.
NoiseChoices ==
  IF ref # <<>> /\ i < Len(ref[1].log) THEN {ref[1].log[i + 1].R} ELSE NoiseSet

Replay == \E Rv \in NoiseChoices : Step(Rv)

RunAgain == runs < 2 /\ runSimulation
RetypeF_mag == runs < 2 /\ SetF_mag
RetypeT_end == runs < 2 /\ SetT_end(0..TEndTwice)

InitTwice == InitWith(0..TEndTwice)

NextTwice ==
  \/ RetypeF_mag
  \/ RetypeT_end
  \/ RunAgain
  \/ Begin
  \/ Replay
  \/ Finish

SpecTwice == InitTwice /\ [][NextTwice]_vars

\* Long runs, where the stride exceeds 1 and the caps are reached.  The random
\* source is stubbed with one fixed sequence: a kick every KickEvery steps,
\* to the right and back to the left in turn.  The callback is one synchronous
\* macrotask; an action here runs BlockSize iterations of its loop.
KickEvery == 500
BlockSize == 1000
LongTEnds == {200, 203, 399, 400, 402, 2046, 2048, 4000, 4002, 4007,
              19999, 20000, 20003, 30001}

LongNoise(iv) ==
  IF iv % KickEvery # 1 THEN 0
  ELSE IF (iv \div KickEvery) % 2 = 0 THEN 12 ELSE -12

\* lines 47-75, k times or until i < n_steps fails (the first half of the
\* iterations, then the rest)
RECURSIVE Iterate(_, _)
Iterate(st, k) ==
  IF k = 0 THEN st
  ELSE IF k = 1
       THEN IF LoopContinues(st.i, n_steps) THEN LoopBody(st, LongNoise(st.i)) ELSE st
       ELSE LET half == Iterate(st, k \div 2)
            IN  IF half.i >= st.i THEN Iterate(half, k - k \div 2) ELSE half

IntegrateLong ==
  /\ phase = "loop"
  /\ LoopContinues(i, n_steps)
  /\ Store(Iterate(Locals, BlockSize))

InitLong == InitWith(LongTEnds)

NextLong ==
  \/ FirstRun
  \/ Begin
  \/ IntegrateLong
  \/ Finish

SpecLong == InitLong /\ [][NextLong]_vars

\* ----------------------------------------------------------------- claims
\* A result has been published and the locals are those of the run behind it.
Published == phase = "idle" /\ runs > 0 /\ results # <<>>

\* |v| <= 0.1 * x_0
InBand(v) == ~IsNaN(v) /\ 10 * MathAbs(v) <= x_0

\* a sample within -2 <= v < 2, and within -2 <= v <= 2
InHalfOpen(v) == ~IsNaN(v) /\ x_min <= v /\ v < x_max
InClosed(v) == ~IsNaN(v) /\ x_min <= v /\ v <= x_max

BinTotal == Sum(histogram)

\* the parameters section 7 of the specification calls invalid
InvalidParameter(p) == p.T <= 0 \/ p.dt <= 0 \/ p.t_end <= 0 \/ NSteps(p) = 0

\* C1: a run on invalid parameters (zero steps, T <= 0, dt <= 0) raises
\* InvalidParameter before any computation: it produces no trajectory sample
\* and publishes no result.
C1_InvalidParameterRaised ==
  [][InvalidParameter(run) => (results' = results /\ trajectory' = <<>>)]_vars

\* C2: if every position the run has reached lies within |x| <= 0.1 * x_0,
\* the switch count is 0, in the loop and in the published metrics, whatever
\* the signs of those positions.
C2_Hysteresis ==
  (\A k \in 1..Len(log) : InBand(log[k].x))
    => /\ switchCount = 0
       /\ Published => results[1].metrics.switches = 0

\* C2 witness: a finished run whose positions all lie in the band and change
\* sign, with no switch counted.
C2_Witness ==
  /\ Published
  /\ Len(log) >= 2
  /\ \A k \in 1..Len(log) : InBand(log[k].x)
  /\ \E k \in 2..Len(log) : MathSign(log[k].x) = -MathSign(log[k - 1].x)
                             /\ log[k].x # 0
  /\ results[1].metrics.switches = 0

\* C7: in every integration step the switch count stays or grows by exactly
\* 1; it grows if and only if the sign of the new position differs from
\* last_sign and the new |x| exceeds 0.1 * x_0; last_sign changes only in a
\* step that counts.
C7_SwitchCountSteps ==
  [][(phase = "loop" /\ i' = i + 1) =>
       /\ switchCount' \in {switchCount, switchCount + 1}
       /\ (switchCount' = switchCount + 1)
            <=> (MathSign(x') # lastSign /\ ~IsNaN(x') /\ 10 * MathAbs(x') > x_0)
       /\ lastSign' # lastSign => switchCount' = switchCount + 1]_vars

\* C7 witness: a first step whose sign differed from last_sign without being
\* counted (inside the band), then two counted switches.
C7_Witness ==
  /\ phase = "loop"
  /\ switchCount = 2
  /\ log[1].switchCount = 0
  /\ MathSign(log[1].x) = 1

\* C10: last_sign is -1 or +1, never 0; it is -1 exactly when the switch count
\* is even; counted switches alternate direction, the first one left to right.
C10_LastSignParity ==
  /\ lastSign \in {-1, 1}
  /\ lastSign = -1 <=> switchCount % 2 = 0
  /\ \A k \in 1..Len(log) :
       LET before == IF k = 1 THEN [lastSign |-> -1, switchCount |-> 0] ELSE log[k - 1]
       IN  log[k].switchCount # before.switchCount
             => /\ log[k].lastSign = -before.lastSign
                /\ log[k].lastSign = MathSign(log[k].x)
                /\ (before.switchCount = 0 => log[k].lastSign = 1)

\* C10 witness: a position of exactly 0, then a switch each way.
C10_Witness ==
  /\ phase = "loop"
  /\ Len(log) >= 3
  /\ log[1].x = 0
  /\ switchCount = 2
  /\ lastSign = -1

\* C4 as stated: every sample in the closed domain [-2, 2] is counted in a
\* bin, so the bin counts sum to the number of samples in [-2, 2].
C4_ClosedDomain ==
  (Published /\ Len(trajectory) > 0)
    => BinTotal = Cardinality({j \in 1..Len(trajectory) : InClosed(trajectory[j])})

\* C4 amended: every sample with -2 <= v < 2 is counted in exactly the bin
\* whose half-open interval holds it, every other sample (v < -2, v >= 2, in
\* particular v = 2, or NaN) in none; the counts sum to the number of samples
\* in [-2, 2), and to the number of samples exactly when none lies outside.
C4_HalfOpenDomain ==
  (Published /\ Len(trajectory) > 0)
    => /\ \A bn \in 0..(hist_bins - 1) :
            histogram[bn + 1] =
              Cardinality({j \in 1..Len(trajectory) :
                 /\ ~IsNaN(trajectory[j])
                 /\ x_min * hist_bins + bn * (x_max - x_min) <= trajectory[j] * hist_bins
                 /\ trajectory[j] * hist_bins < x_min * hist_bins + (bn + 1) * (x_max - x_min)})
       /\ BinTotal = Cardinality({j \in 1..Len(trajectory) : InHalfOpen(trajectory[j])})
       /\ (BinTotal = Len(trajectory))
            <=> (\A j \in 1..Len(trajectory) : InHalfOpen(trajectory[j]))
       /\ \A bn \in 0..(hist_bins - 1) :
            results[1].histData[bn + 1].density =
              FDiv(histogram[bn + 1] * 1000 * RatioScale, Len(trajectory) * bin_width)

\* C4 witness: a sample of exactly 2 was dropped, the others were counted.
C4_Witness ==
  /\ Published
  /\ \E j \in 1..Len(trajectory) : trajectory[j] = x_max
  /\ BinTotal = Len(trajectory) - 1

\* The second run has begun, and the first run is on record.
SecondRun == ref # <<>> /\ runs = 2 /\ phase # "scheduled"

\* The steps of the current run agree, one by one, with the recorded run's:
\* position, last_sign, switch count and number of retained samples.
SameSteps ==
  \A k \in 1..Min(Len(log), Len(ref[1].log)) : log[k] = ref[1].log[k]

\* C3: a second run on identical params, fed the identical noise sequence,
\* starts from the same state as the first whatever the first left behind,
\* goes through the same states step by step and publishes an identical
\* result.
C3_Deterministic ==
  (SecondRun /\ run = ref[1].p)
    => /\ SameSteps
       /\ (phase = "loop" /\ i = 0)
            => (x = -x_0 /\ lastSign = -1 /\ switchCount = 0
                /\ trajectory = <<>> /\ times = <<>>)
       /\ phase = "idle" => (Len(log) = Len(ref[1].log) /\ results[1] = ref[1].res)

\* C3 witness: a second run on the same params finished after two steps, the
\* first run having counted a switch.
C3_Witness ==
  /\ SecondRun
  /\ run = ref[1].p
  /\ phase = "idle"
  /\ Len(log) = 2
  /\ ref[1].res.metrics.switches >= 1

StepsOf(p) == p.t_end \div p.dt
StrideOf(p) == IF StepsOf(p) \div SampleTarget > 1 THEN StepsOf(p) \div SampleTarget ELSE 1
CeilDiv(n, d) == (n + d - 1) \div d

\* C5: a run performs exactly n_steps = floor(t_end / dt) position updates;
\* with stride = max(1, floor(n_steps / 5000)) it retains exactly the
\* positions of the steps i with i mod stride = 0, ceil(n_steps / stride)
\* of them and never more than n_steps; 100 steps give stride 1 and 100
\* samples.
C5_StepCount ==
  /\ phase = "loop"
       => /\ i <= StepsOf(run)
          /\ Len(log) = i
          /\ Len(trajectory) = CeilDiv(i, StrideOf(run))
          /\ Len(times) = Len(trajectory)
  /\ Published
       => /\ i = StepsOf(run)
          /\ Len(log) = StepsOf(run)
          /\ downsample = StrideOf(run)
          /\ Len(trajectory) = CeilDiv(StepsOf(run), StrideOf(run))
          /\ Len(trajectory) <= StepsOf(run)
          /\ \A j \in 1..Len(trajectory) :
               /\ trajectory[j] = PositionRatio(log[(j - 1) * StrideOf(run) + 1].x)
               /\ times[j] = TimeMicros((j - 1) * StrideOf(run), run)
          /\ StepsOf(run) = 100 => (downsample = 1 /\ Len(trajectory) = 100)

\* C5 witness: a finished run of 10001 steps, stride 2, 5001 samples retained.
C5_Witness ==
  /\ Published
  /\ i = 10001
  /\ downsample = 2
  /\ Len(trajectory) = 5001
  /\ trajectory[2] # trajectory[1]

\* C6 as stated: the spectrum has one entry for each k from 0 to
\* floor(N/2) - 1, cut to 100: min(100, floor(N/2)) entries, entry k at k*10.
C6_FloorHalf ==
  Published
    => LET N == Min(FftCap, Len(trajectory))
           sp == results[1].spectrum
       IN  /\ Len(sp) = Min(SpectrumCap, N \div 2)
           /\ \A j \in 1..Len(sp) : sp[j].k = j - 1 /\ sp[j].freq = (j - 1) * 10

\* C6 amended: the spectrum has one entry for each k with k < N/2, that is
\* from 0 to ceil(N/2) - 1, cut to the first 100: min(100, ceil(N/2))
\* entries, in increasing k, entry k at frequency k*10.
C6_CeilHalf ==
  Published
    => LET N == Min(FftCap, Len(trajectory))
           sp == results[1].spectrum
       IN  /\ Len(sp) = Min(SpectrumCap, CeilDiv(N, 2))
           /\ \A j \in 1..Len(sp) : sp[j].k = j - 1 /\ sp[j].freq = (j - 1) * 10

\* C6 witness: a window of 101 samples gives 51 entries, the last at k = 50.
C6_Witness ==
  /\ Published
  /\ Len(trajectory) = 101
  /\ Len(results[1].spectrum) = 51
  /\ results[1].spectrum[51].freq = 500

\* C8: the published series is the first min(2000, retained) samples, in step
\* order with strictly increasing times; mean, std and the histogram are
\* those of all retained samples.
C8_OutputCap ==
  Published
    => LET r == results[1]
       IN  /\ Len(r.chartData) = Min(ChartCap, Len(trajectory))
           /\ \A j \in 1..Len(r.chartData) :
                /\ r.chartData[j] = [time |-> times[j], position |-> trajectory[j]]
                /\ j > 1 => r.chartData[j - 1].time < r.chartData[j].time
           /\ r.metrics.mean = FDiv(Sum(trajectory), Len(trajectory))
           /\ r.metrics.std = StdDev(trajectory)
           /\ \A bn \in 1..hist_bins :
                r.histData[bn].density =
                  FDiv(Cardinality({j \in 1..Len(trajectory) :
                                      Binned(trajectory[j]) /\ Bin(trajectory[j]) = bn - 1})
                         * 1000 * RatioScale,
                       Len(trajectory) * bin_width)

\* C8 witness: 5001 samples retained, 2000 published, and samples beyond the
\* cap that differ from the last published one.
C8_Witness ==
  /\ Published
  /\ Len(trajectory) = 5001
  /\ Len(results[1].chartData) = 2000
  /\ results[1].chartData[2000].time = times[2000]
  /\ \E j \in 2001..5001 : trajectory[j] # trajectory[2000]

====
